---- MODULE Spec2Model ----
(***************************************************************************)
(* The CronJob reconciler of controllers/cronjob_controller.go.            *)
(*                                                                         *)
(* One parent CronJob, its child Jobs in the store, the manager's cache of *)
(* the children, and the clock.  Times are whole Unix seconds (every time  *)
(* the controller persists or compares is one: creation timestamps, start  *)
(* times, the scheduled-at annotation and the occurrences of a schedule).  *)
(* A pass of Reconcile is a sequence of turns, one per call it makes on    *)
(* the client (r.Get, r.List, r.Status().Update, each r.Delete, r.Create)  *)
(* and one for the code between the last pruning delete and the policy;    *)
(* the job controller, the user and the cache act between any two turns.   *)
(* Reconcile(...) is the pass run from its first turn to its return with   *)
(* nothing in between.                                                     *)
(***************************************************************************)
EXTENDS Integers, Sequences, FiniteSets, TLC

VARIABLES
    now,        \* the clock r.Now() reads
    exists,     \* the parent CronJob is in the store
    cronJob,    \* the parent CronJob as stored: spec and persisted status
    jobs,       \* the child Jobs in the store
    cache,      \* the child Jobs as the manager's cache has them: what r.List reads
    last,       \* what the pass just ended read, did and returned (NoPass after any other step)
    created,    \* history: the nominal run times a Create succeeded for, once / again
    pruneErr,   \* history: names whose history-prune delete failed in the latest pass
    pass        \* each worker's pass in flight: its position and its local variables

vars == <<now, exists, cronJob, jobs, cache, last, created, pruneErr, pass>>

(***************************************************************************)
(* Bounds of the model.                                                    *)
(***************************************************************************)
\* The clock stops advancing after this many minutes.
MaxNow == 4
\* The most minutes the clock advances between two reads of r.Now() inside
\* one pass.
MaxDrift == 1
\* The calculator is tried at the clocks and bound times of the minutes
\* 0..MaxCalc, and as far around each of the first hundreds of minutes.
MaxCalc == 4

(***************************************************************************)
(* Values.                                                                 *)
(***************************************************************************)
\* A nil pointer (*time.Time, *metav1.Time, *int32, *int64) and the zero
\* time.Time{}: before every time of the model.
Nil == -1

AllowConcurrent == "Allow"
ForbidConcurrent == "Forbid"
ReplaceConcurrent == "Replace"

JobComplete == "Complete"
JobFailed == "Failed"

\* The schedules a parent may carry: ones that parse, one that does not.
EveryMinute == "* * * * *"
EveryOther == "*/2 * * * *"
EveryThird == "*/3 * * * *"
EveryFifth == "*/5 * * * *"
Hourly == "0 * * * *"
Unparseable == "not a schedule"

\* The seconds of a minute, the unit of a schedule's minute field.  The
\* clock of the state machine is read on whole minutes; the calculator is
\* also tried at the seconds around them.
Minute == 60

Workers == {1, 2}

Max(a, b) == IF a >= b THEN a ELSE b

\* cron.ParseStandard: the parsed schedule, or an error.  The schedules of
\* the model fire at second 0 of every minute, of every second, third or
\* fifth minute of the hour, or of the hour: every period seconds from the
\* Unix epoch.
ParseStandard(schedule) ==
    IF schedule = EveryMinute THEN [err |-> FALSE, period |-> Minute]
    ELSE IF schedule = EveryOther THEN [err |-> FALSE, period |-> 2 * Minute]
    ELSE IF schedule = EveryThird THEN [err |-> FALSE, period |-> 3 * Minute]
    ELSE IF schedule = EveryFifth THEN [err |-> FALSE, period |-> 5 * Minute]
    ELSE IF schedule = Hourly THEN [err |-> FALSE, period |-> 60 * Minute]
    ELSE [err |-> TRUE, period |-> 0]

\* sched.Next(t): the first occurrence strictly after t.
SchedNext(sched, t) == ((t \div sched.period) + 1) * sched.period

\* client.IgnoreNotFound
IgnoreNotFound(err) == IF err = "NotFound" THEN "" ELSE err

\* ctrl.Result{RequeueAfter: d} with the returned error
Result(d, err) == [requeueAfter |-> d, err |-> err]

(***************************************************************************)
(* Child jobs.                                                             *)
(***************************************************************************)
\* time.Time.Unix(): times are held in whole Unix seconds
Unix(t) == t

\* scheduledTime.Format(time.RFC3339) and its parse: the annotation's text
FormatRFC3339(t) == <<"RFC3339", Unix(t)>>

ParseRFC3339(text) ==
    IF Len(text) = 2 /\ text[1] = "RFC3339"
    THEN [err |-> FALSE, time |-> text[2]]
    ELSE [err |-> TRUE, time |-> Nil]

\* the verb %d: the decimal digits of n, with a minus sign below zero
Digit(d) == <<"0", "1", "2", "3", "4", "5", "6", "7", "8", "9">>[d + 1]

RECURSIVE FormatInt(_)
FormatInt(n) ==
    IF n < 0 THEN "-" \o FormatInt(0 - n)
    ELSE IF n < 10 THEN Digit(n)
    ELSE FormatInt(n \div 10) \o Digit(n % 10)

\* fmt.Sprintf("%s-%d", name, n)
Sprintf(name, n) == name \o "-" \o FormatInt(n)

\* The child's name: fmt.Sprintf("%s-%d", cronJob.Name, scheduledTime.Unix())
JobNameByClock(cj, scheduledTime) == Sprintf(cj.name, Unix(now))

JobNameLastDigit(cj, scheduledTime) == Sprintf(cj.name, Unix(scheduledTime) % 10)

JobName(cj, scheduledTime) == Sprintf(cj.name, Unix(scheduledTime))

\* isJobFinished: the type of the job's first Complete or Failed condition
\* that is true, "" when it has none.
RECURSIVE isJobFinished(_)
isJobFinished(conditions) ==
    IF conditions = <<>> THEN ""
    ELSE IF Head(conditions) \in {JobComplete, JobFailed} THEN Head(conditions)
    ELSE isJobFinished(Tail(conditions))

\* getScheduledTimeForJob: the time of the scheduled-at annotation; no time
\* when the annotation is absent, an error when it does not parse.
getScheduledTimeForJob(job) ==
    IF job.scheduledAt = <<>> THEN [err |-> FALSE, time |-> Nil]
    ELSE ParseRFC3339(job.scheduledAt)

\* the classification loop's partitions, in the listing's order
activeJobs(items) == SelectSeq(items, LAMBDA j : isJobFinished(j.conditions) = "")
failedJobs(items) == SelectSeq(items, LAMBDA j : isJobFinished(j.conditions) = JobFailed)
successfulJobs(items) == SelectSeq(items, LAMBDA j : isJobFinished(j.conditions) = JobComplete)

\* the classification loop's mostRecentTime
RECURSIVE MostRecentFrom(_, _)
MostRecentFrom(items, mostRecentTime) ==
    IF items = <<>> THEN mostRecentTime
    ELSE LET s == getScheduledTimeForJob(Head(items))
             m == IF s.err \/ s.time = Nil THEN mostRecentTime
                  ELSE IF mostRecentTime = Nil THEN s.time
                  ELSE IF mostRecentTime < s.time THEN s.time
                  ELSE mostRecentTime
         IN MostRecentFrom(Tail(items), m)

mostRecentTimeOfActive(items) == MostRecentFrom(activeJobs(items), Nil)

mostRecentTime(items) == MostRecentFrom(items, Nil)

Names(items) == {items[i].name : i \in 1..Len(items)}

\* The loop building Status.Active: a reference (the name) for each active
\* job, in order; a job ref.GetReference fails for (its name is in refErr)
\* is passed over and the loop goes on with the next.
RECURSIVE References(_, _)
References(active, refErr) ==
    IF active = <<>> THEN <<>>
    ELSE IF Head(active).name \in refErr THEN References(Tail(active), refErr)
    ELSE <<Head(active).name>> \o References(Tail(active), refErr)

\* The status a pass builds: lastScheduleTime from the children, and a
\* reference to every active job ref.GetReference succeeds for.
NewStatusKeepsOld(items, refErr) ==
    [active |-> cronJob.status.active \o References(activeJobs(items), refErr),
     lastScheduleTime |-> mostRecentTime(items)]

NewStatus(items, refErr) ==
    [active |-> References(activeJobs(items), refErr),
     lastScheduleTime |-> mostRecentTime(items)]

(***************************************************************************)
(* History pruning.                                                        *)
(***************************************************************************)
\* The comparison handed to sort.Slice: a job with no start time goes before
\* one that has a start time; otherwise the earlier start goes first
\* (metav1.Time.Before is false when its argument is nil).
StartsBefore(a, b) ==
    IF a.startTime = Nil THEN b.startTime # Nil
    ELSE b.startTime # Nil /\ a.startTime < b.startTime

\* sort.Slice on the few jobs of a listing is an insertion sort: each job
\* moves left past the jobs it goes before.
RECURSIVE InsertJob(_, _)
InsertJob(sorted, job) ==
    IF sorted = <<>> THEN <<job>>
    ELSE LET n == Len(sorted)
         IN IF StartsBefore(job, sorted[n])
            THEN Append(InsertJob(SubSeq(sorted, 1, n - 1), job), sorted[n])
            ELSE Append(sorted, job)

RECURSIVE SortByStart(_)
SortByStart(items) ==
    IF items = <<>> THEN <<>>
    ELSE LET n == Len(items)
         IN InsertJob(SortByStart(SubSeq(items, 1, n - 1)), items[n])

\* The jobs the prune loop reaches before it breaks:
\* those at index i (from 0) with i < len - limit.
PruneTargetsNewest(finished, limit) ==
    IF limit = Nil THEN <<>>
    ELSE SubSeq(SortByStart(finished), Len(finished) - Max(0, Len(finished) - limit) + 1,
                Len(finished))

PruneTargets(finished, limit) ==
    IF limit = Nil THEN <<>>
    ELSE SubSeq(SortByStart(finished), 1, Max(0, Len(finished) - limit))

\* r.Delete by name: the call's error and the store after it.
DeleteJob(store, name, delErr) ==
    LET err == IF name \in delErr THEN "Error"
               ELSE IF \E j \in store : j.name = name THEN ""
               ELSE "NotFound"
    IN [err |-> err,
        jobs |-> IF err = "" THEN {j \in store : j.name # name} ELSE store]

\* A call the pass made: its kind, the loop or step that made it, the job's
\* name, the error returned, and whether the store held a job of that name
\* when it was made (had).
Held(store, name) == \E j \in store : j.name = name

Op(op, why, name, err, store) ==
    [op |-> op, why |-> why, name |-> name, err |-> err, had |-> Held(store, name)]

\* A turn of a pass goes on to the next position, or leaves the pass by a
\* return statement with its result.
Goes(st, pc) == [st EXCEPT !.pc = pc]

Left(st, exit, result) == [st EXCEPT !.pc = "done", !.exit = exit, !.result = result]

\* The deletes a loop is to make, in order: each target's name under the
\* loop's kind.
Queue(targets, why) == [i \in 1..Len(targets) |-> [name |-> targets[i].name, why |-> why]]

\* One turn of a prune loop: the delete of the next target; the loop goes on
\* to the target after it whatever the delete returned.
PruneTurnStopOnError(st, in) ==
    LET target == Head(st.todo)
        d == DeleteJob(st.jobs, target.name, in.delErr)
        st1 == [st EXCEPT !.jobs = d.jobs,
                          !.ops = Append(@, Op("delete", target.why, target.name, d.err, st.jobs)),
                          !.todo = IF d.err # "" THEN <<>> ELSE Tail(@)]
    IN Goes(st1, IF st1.todo = <<>> THEN "schedule" ELSE "prune")

PruneTurn(st, in) ==
    LET target == Head(st.todo)
        d == DeleteJob(st.jobs, target.name, in.delErr)
        st1 == [st EXCEPT !.jobs = d.jobs,
                          !.ops = Append(@, Op("delete", target.why, target.name, d.err, st.jobs)),
                          !.todo = Tail(@)]
    IN Goes(st1, IF st1.todo = <<>> THEN "schedule" ELSE "prune")

(***************************************************************************)
(* The schedule calculator.                                                *)
(***************************************************************************)
\* More missed start times than this is an error.
MaxMissedStarts == 100

\* One turn of the loop of getNextSchedule, on the loop's variables: the
\* occurrence t, the last one walked, the count of those walked.  The turn
\* ends the loop when t is after now, and with the error once more than
\* MaxMissedStarts were walked; else it goes on to the next occurrence.
WalkStepKeepsFirst(sched, clock, w) ==
    IF w.t > clock THEN [w EXCEPT !.over = TRUE]
    ELSE IF w.starts + 1 > MaxMissedStarts
    THEN [w EXCEPT !.lastMissed = IF @ = Nil THEN w.t ELSE @, !.starts = @ + 1,
                   !.over = TRUE, !.err = "Too many missed start times"]
    ELSE [w EXCEPT !.lastMissed = IF @ = Nil THEN w.t ELSE @, !.starts = @ + 1,
                   !.t = SchedNext(sched, w.t)]

WalkStepOneEarly(sched, clock, w) ==
    IF w.t > clock THEN [w EXCEPT !.over = TRUE]
    ELSE IF w.starts + 1 >= MaxMissedStarts
    THEN [w EXCEPT !.lastMissed = w.t, !.starts = @ + 1,
                   !.over = TRUE, !.err = "Too many missed start times"]
    ELSE [w EXCEPT !.lastMissed = w.t, !.starts = @ + 1, !.t = SchedNext(sched, w.t)]

WalkStep(sched, clock, w) ==
    IF w.t > clock THEN [w EXCEPT !.over = TRUE]
    ELSE IF w.starts + 1 > MaxMissedStarts
    THEN [w EXCEPT !.lastMissed = w.t, !.starts = @ + 1,
                   !.over = TRUE, !.err = "Too many missed start times"]
    ELSE [w EXCEPT !.lastMissed = w.t, !.starts = @ + 1, !.t = SchedNext(sched, w.t)]

\* The loop run for up to n turns, until it is over.
RECURSIVE WalkTurns(_, _, _, _)
WalkTurns(sched, clock, n, w) ==
    IF n = 0 \/ w.over THEN w
    ELSE IF n = 1 THEN WalkStep(sched, clock, w)
    ELSE WalkTurns(sched, clock, n - (n \div 2), WalkTurns(sched, clock, n \div 2, w))

\* The loop of getNextSchedule from occurrence t, and the return after it:
\* the last occurrence not after now with the next one after now, or the
\* error.  The loop is over within MaxMissedStarts + 2 turns.
MissedWalk(sched, t, clock, starts, lastMissed) ==
    LET w == WalkTurns(sched, clock, MaxMissedStarts + 2,
                       [t |-> t, lastMissed |-> lastMissed, starts |-> starts,
                        over |-> FALSE, err |-> ""])
    IN IF w.err # ""
       THEN [lastMissed |-> Nil, next |-> Nil, err |-> w.err, starts |-> w.starts]
       ELSE [lastMissed |-> w.lastMissed, next |-> SchedNext(sched, clock), err |-> "",
             starts |-> w.starts]

\* earliestTime of getNextSchedule: the last observed run, else the creation
\* time; raised to the scheduling deadline when a deadline is set and that
\* is later.
earliestTimeOfStatus(cj, clock) ==
    IF cj.status.lastScheduleTime # Nil
    THEN cj.status.lastScheduleTime
    ELSE cj.creationTimestamp

earliestTime(cj, clock) ==
    LET bound == IF cj.status.lastScheduleTime # Nil
                 THEN cj.status.lastScheduleTime
                 ELSE cj.creationTimestamp
        schedulingDeadline == clock - cj.spec.startingDeadlineSeconds
    IN IF cj.spec.startingDeadlineSeconds # Nil /\ schedulingDeadline > bound
       THEN schedulingDeadline
       ELSE bound

getNextScheduleNextFromEarliest(cj, clock) ==
    LET p == ParseStandard(cj.spec.schedule)
    IN IF p.err
       THEN [lastMissed |-> Nil, next |-> Nil, err |-> "Unparseable schedule", starts |-> 0]
       ELSE IF earliestTime(cj, clock) > clock
       THEN [lastMissed |-> Nil, next |-> SchedNext(p, earliestTime(cj, clock)), err |-> "",
             starts |-> 0]
       ELSE MissedWalk(p, SchedNext(p, earliestTime(cj, clock)), clock, 0, Nil)

getNextSchedule(cj, clock) ==
    LET p == ParseStandard(cj.spec.schedule)
    IN IF p.err
       THEN [lastMissed |-> Nil, next |-> Nil, err |-> "Unparseable schedule", starts |-> 0]
       ELSE IF earliestTime(cj, clock) > clock
       THEN [lastMissed |-> Nil, next |-> SchedNext(p, clock), err |-> "", starts |-> 0]
       ELSE MissedWalk(p, SchedNext(p, earliestTime(cj, clock)), clock, 0, Nil)

(***************************************************************************)
(* The job constructor.                                                    *)
(***************************************************************************)
\* constructJobForCronJob: the new child, or the error of
\* ctrl.SetControllerReference.
constructJobForCronJob(cj, scheduledTime, ownerErr) ==
    [job |-> [name |-> JobName(cj, scheduledTime),
              namespace |-> cj.namespace,
              scheduledAt |-> FormatRFC3339(scheduledTime),
              conditions |-> <<>>,
              startTime |-> Nil],
     err |-> IF ownerErr THEN "Error" ELSE ""]

\* r.Create: rejected when the name is taken.
CreateJob(store, job, createErr) ==
    LET err == IF createErr THEN "Error"
               ELSE IF \E j \in store : j.name = job.name THEN "AlreadyExists"
               ELSE ""
    IN [err |-> err, jobs |-> IF err = "" THEN store \cup {job} ELSE store]

(***************************************************************************)
(* One pass of Reconcile.                                                  *)
(*                                                                         *)
(* st: the pass's position (pc) and local variables: the parent as fetched *)
(* (cj), the status built from the listing, the listing (items), the       *)
(* deletes its current loop has still to make (todo), the calls made in    *)
(* order (ops), the clock reads, missedRun and nextRun, scheduledResult    *)
(* (result, until the pass returns), the return statement it left by       *)
(* (exit) and what it returned (result); st.jobs is the store's children   *)
(* as the turn finds and leaves them.                                      *)
(* env: what a turn reads: the parent in the store (found, cj), the        *)
(* listing the cache gives (items), the clock.                             *)
(* in: the outcomes of the calls the pass makes.                           *)
(*   fault      "get", "list", "update": that call fails; "none"           *)
(*   refErr     the names of the jobs ref.GetReference fails for           *)
(*   delErr     the jobs whose delete fails (with an error that is not     *)
(*              not-found)                                                 *)
(*   d1, d2     how far the clock advances before the second and the third *)
(*              read of r.Now()                                            *)
(*   ownerErr   ctrl.SetControllerReference fails                          *)
(*   createErr  r.Create fails (with an error that is not already-exists)  *)
(***************************************************************************)
NoResult == Result(0, "")

\* var cronJob batch.CronJob before r.Get fills it
Unfetched ==
    [name |-> "",
     namespace |-> "",
     creationTimestamp |-> Nil,
     spec |-> [schedule |-> "",
               startingDeadlineSeconds |-> Nil,
               concurrencyPolicy |-> "",
               suspend |-> FALSE,
               successfulJobsHistoryLimit |-> Nil,
               failedJobsHistoryLimit |-> Nil],
     status |-> [active |-> <<>>, lastScheduleTime |-> Nil]]

\* A pass at its entry, with the store's children as they are.
Begin(store) ==
    [pc |-> "get", jobs |-> store, cj |-> Unfetched, status |-> Unfetched.status,
     saved |-> FALSE, items |-> <<>>, refErr |-> {}, todo |-> <<>>, ops |-> <<>>,
     reads |-> <<>>, missedRun |-> Nil, nextRun |-> Nil, exit |-> "", result |-> NoResult]

\* r.Get: lines 77-83; not-found is returned as no error.
GetTurn(st, env, in) ==
    IF in.fault = "get" THEN Left(st, "fetch", Result(0, IgnoreNotFound("Error")))
    ELSE IF ~env.found THEN Left(st, "fetch", Result(0, IgnoreNotFound("NotFound")))
    ELSE Goes([st EXCEPT !.cj = env.cj, !.status = env.cj.status], "list")

\* r.List, the classification of the listing and the status built from it:
\* lines 87-138.
ListTurn(st, env, in) ==
    IF in.fault = "list" THEN Left(st, "list", Result(0, "Error"))
    ELSE Goes([st EXCEPT !.items = env.items, !.refErr = in.refErr,
                         !.status = NewStatus(env.items, in.refErr)], "update")

\* history pruning, lines 145-183: the deletes the two loops are to make,
\* the failed jobs' first.
PruneStep(st, cj, items) ==
    LET todo == Queue(PruneTargets(failedJobs(items), cj.spec.failedJobsHistoryLimit),
                      "failed")
                \o Queue(PruneTargets(successfulJobs(items),
                                      cj.spec.successfulJobsHistoryLimit), "successful")
    IN Goes([st EXCEPT !.todo = todo], IF todo = <<>> THEN "schedule" ELSE "prune")

\* r.Status().Update: lines 141-144.  The update is refused with a conflict
\* when the parent in the store is no longer the one the pass fetched, and
\* with not-found when it is gone.
UpdateTurn(st, env, in) ==
    IF in.fault = "update" THEN Left(st, "update", Result(0, "Error"))
    ELSE IF ~env.found THEN Left(st, "update", Result(0, "NotFound"))
    ELSE IF env.cj # st.cj THEN Left(st, "update", Result(0, "Conflict"))
    ELSE PruneStep([st EXCEPT !.cj.status = st.status, !.saved = TRUE], st.cj, st.items)

\* One turn of the Replace loop: the delete of the next active job;
\* not-found counts as deleted, any other error ends the pass.
ReplaceTurnNoDelete(st, in) ==
    LET st1 == [st EXCEPT !.todo = Tail(@)]
    IN Goes(st1, IF st1.todo = <<>> THEN "create" ELSE "replace")

ReplaceTurnBestEffort(st, in) ==
    LET target == Head(st.todo)
        d == DeleteJob(st.jobs, target.name, in.delErr)
        st1 == [st EXCEPT !.jobs = d.jobs,
                          !.ops = Append(@, Op("delete", target.why, target.name, d.err, st.jobs)),
                          !.todo = Tail(@)]
    IN Goes(st1, IF st1.todo = <<>> THEN "create" ELSE "replace")

ReplaceTurn(st, in) ==
    LET target == Head(st.todo)
        d == DeleteJob(st.jobs, target.name, in.delErr)
        st1 == [st EXCEPT !.jobs = d.jobs,
                          !.ops = Append(@, Op("delete", target.why, target.name, d.err, st.jobs)),
                          !.todo = Tail(@)]
    IN IF IgnoreNotFound(d.err) # "" THEN Left(st1, "replace", Result(0, d.err))
       ELSE Goes(st1, IF st1.todo = <<>> THEN "create" ELSE "replace")

\* construction and create: lines 314-330; a create that fails ends the pass
\* with its error, whatever the error.
CreateStepToleratesExists(st, cj, in, missedRun, scheduledResult) ==
    LET c == constructJobForCronJob(cj, missedRun, in.ownerErr)
        made == CreateJob(st.jobs, c.job, in.createErr)
        st1 == [st EXCEPT !.jobs = made.jobs,
                          !.ops = Append(@, Op("create", "run", c.job.name, made.err, st.jobs))]
    IN IF c.err # "" THEN Left(st, "construct", scheduledResult)
       ELSE IF made.err \notin {"", "AlreadyExists"} THEN Left(st1, "create", Result(0, made.err))
       ELSE Left(st1, "created", scheduledResult)

CreateStep(st, cj, in, missedRun, scheduledResult) ==
    LET c == constructJobForCronJob(cj, missedRun, in.ownerErr)
        made == CreateJob(st.jobs, c.job, in.createErr)
        st1 == [st EXCEPT !.jobs = made.jobs,
                          !.ops = Append(@, Op("create", "run", c.job.name, made.err, st.jobs))]
    IN IF c.err # "" THEN Left(st, "construct", scheduledResult)
       ELSE IF made.err # "" THEN Left(st1, "create", Result(0, made.err))
       ELSE Left(st1, "created", scheduledResult)

\* the concurrency policy, lines 270-286: Forbid returns when a job is
\* active; Replace goes on to its loop over the active jobs; else the pass
\* goes on to the creation.
PolicyStepAllowAlways(st, cj, active, in, missedRun, scheduledResult) ==
    Goes(st, "create")

PolicyStepForbidAboveOne(st, cj, active, in, missedRun, scheduledResult) ==
    IF cj.spec.concurrencyPolicy = ForbidConcurrent /\ Len(active) > 1
    THEN Left(st, "forbid", scheduledResult)
    ELSE IF cj.spec.concurrencyPolicy = ReplaceConcurrent /\ active # <<>>
    THEN Goes([st EXCEPT !.todo = Queue(active, "active")], "replace")
    ELSE Goes(st, "create")

PolicyStep(st, cj, active, in, missedRun, scheduledResult) ==
    IF cj.spec.concurrencyPolicy = ForbidConcurrent /\ Len(active) > 0
    THEN Left(st, "forbid", scheduledResult)
    ELSE IF cj.spec.concurrencyPolicy = ReplaceConcurrent /\ active # <<>>
    THEN Goes([st EXCEPT !.todo = Queue(active, "active")], "replace")
    ELSE Goes(st, "create")

\* tooLate: the missed run's starting deadline has passed at the clock read
\* for it; never without a deadline.
TooLateNever(cj, missedRun, clock) == FALSE

TooLateToStart(cj, missedRun, clock) ==
    /\ cj.spec.startingDeadlineSeconds # Nil
    /\ missedRun + cj.spec.startingDeadlineSeconds < clock

\* the schedule and the deadline: lines 241-269
ScheduleStep(st, cj, active, clock, in) ==
    LET now1 == clock
        s == getNextSchedule(cj, now1)
        now2 == now1 + in.d1
        scheduledResult == Result(s.next - now2, "")
        missedRun == s.lastMissed
        now3 == now2 + in.d2
        tooLate == TooLateToStart(cj, missedRun, now3)
        st1 == [st EXCEPT !.reads = <<now1>>]
        st2 == [st EXCEPT !.reads = <<now1, now2>>, !.missedRun = missedRun,
                          !.nextRun = s.next, !.result = scheduledResult]
        st3 == IF cj.spec.startingDeadlineSeconds # Nil
               THEN [st2 EXCEPT !.reads = <<now1, now2, now3>>]
               ELSE st2
    IN IF s.err # "" THEN Left(st1, "schedule", Result(0, ""))
       ELSE IF missedRun = Nil THEN Left(st2, "nomissed", scheduledResult)
       ELSE IF tooLate THEN Left(st3, "toolate", scheduledResult)
       ELSE PolicyStep(st3, cj, active, in, missedRun, scheduledResult)

\* the suspend check: lines 184-187
SuspendStepIgnored(st, cj, active, clock, in) ==
    ScheduleStep(st, cj, active, clock, in)

SuspendStep(st, cj, active, clock, in) ==
    IF cj.spec.suspend
    THEN Left(st, "suspend", Result(0, ""))
    ELSE ScheduleStep(st, cj, active, clock, in)

\* The code between the last pruning delete and the first call after it:
\* lines 184-278, on the parent the pass holds and the jobs it listed as
\* active.
ScheduleTurn(st, env, in) ==
    SuspendStep(st, st.cj, activeJobs(st.items), env.clock, in)

\* job, err := constructJobForCronJob(&cronJob, missedRun) and r.Create
CreateTurn(st, in) == CreateStep(st, st.cj, in, st.missedRun, st.result)

\* The turn the pass is at.
Turn(st, env, in) ==
    CASE st.pc = "get" -> GetTurn(st, env, in)
      [] st.pc = "list" -> ListTurn(st, env, in)
      [] st.pc = "update" -> UpdateTurn(st, env, in)
      [] st.pc = "prune" -> PruneTurn(st, in)
      [] st.pc = "schedule" -> ScheduleTurn(st, env, in)
      [] st.pc = "replace" -> ReplaceTurn(st, in)
      [] st.pc = "create" -> CreateTurn(st, in)

\* A pass from st to its return with nothing acting in between.  A pass
\* makes three turns, one per prune target and per active job, and one more
\* for the creation.
RECURSIVE Run(_, _, _)
Run(st, env, in) ==
    IF st.pc = "done" THEN st ELSE Run(Turn(st, env, in), env, in)

\* Reconcile: found is the parent being in the store, cj the parent as
\* fetched, store the children in the store, items the listing, clock what
\* the first r.Now() returns.
Reconcile(found, cj, store, items, clock, in) ==
    Run(Begin(store), [found |-> found, cj |-> cj, items |-> items, clock |-> clock], in)

(***************************************************************************)
(* The state machine.                                                      *)
(***************************************************************************)
Schedules == {EveryOther, Unparseable}
Deadlines == {Nil, Minute}
Policies == {AllowConcurrent, ForbidConcurrent, ReplaceConcurrent}
\* <<successfulJobsHistoryLimit, failedJobsHistoryLimit>>
HistoryLimits == {<<0, 1>>}

\* The parents the store may hold at the start: just created, never
\* reconciled, with no history limit.
Parents ==
    {[name |-> "cj",
      namespace |-> "default",
      creationTimestamp |-> 0,
      spec |-> [schedule |-> s,
                startingDeadlineSeconds |-> d,
                concurrencyPolicy |-> p,
                suspend |-> FALSE,
                successfulJobsHistoryLimit |-> Nil,
                failedJobsHistoryLimit |-> Nil],
      status |-> [active |-> <<>>, lastScheduleTime |-> Nil]] :
        s \in Schedules, d \in Deadlines, p \in Policies}

\* The same parents with history limits set and no starting deadline.
PruningParents ==
    {[p EXCEPT !.spec.successfulJobsHistoryLimit = h[1],
               !.spec.failedJobsHistoryLimit = h[2]] :
        p \in {q \in Parents : q.spec.startingDeadlineSeconds = Nil}, h \in HistoryLimits}

\* What a worker holds between its passes, and of a pass between its turns
\* (the store's children are read anew by every turn).
Between(st) == [st EXCEPT !.jobs = {}]

Idle == Between(Begin({}))

NoPass ==
    [exit |-> "", result |-> NoResult, cj |-> Unfetched, before |-> {}, items |-> <<>>,
     refErr |-> {}, status |-> [active |-> <<>>, lastScheduleTime |-> Nil], saved |-> FALSE,
     ops |-> <<>>, reads |-> <<>>, missedRun |-> Nil, nextRun |-> Nil,
     prevPruneErr |-> {}]

Init ==
    /\ now = 0
    /\ exists = TRUE
    /\ cronJob \in Parents \cup {p \in PruningParents :
                                      p.spec.concurrencyPolicy = ReplaceConcurrent}
    /\ jobs = {}
    /\ cache = {}
    /\ last = NoPass
    /\ created = [once |-> {}, again |-> {}]
    /\ pruneErr = {}
    /\ pass = [w \in Workers |-> Idle]

\* r.List returns the children in no particular order.
Listings(store) ==
    {items \in [1..Cardinality(store) -> store] :
        \A i, j \in 1..Cardinality(store) : i # j => items[i] # items[j]}

\* How far the clock may advance between two reads of one pass.
Drifts == {k * Minute : k \in 0..MaxDrift}

NoFault ==
    [fault |-> "none", refErr |-> {}, delErr |-> {}, d1 |-> 0, d2 |-> 0,
     ownerErr |-> FALSE, createErr |-> FALSE]

\* The outcomes the calls of a whole pass over this listing can have.  Only
\* the calls the pass gets to have one: no reference made in a pass whose
\* r.Get or r.List fails, no third clock read without a deadline, no delete
\* of an active job, construction or create in a pass that leaves before
\* them.  A pass whose status update fails has made its references.
Inputs(cj, items, clock) ==
    LET act == Names(activeJobs(items))
        fin == (IF cj.spec.failedJobsHistoryLimit # Nil
                THEN Names(failedJobs(items)) ELSE {})
               \cup (IF cj.spec.successfulJobsHistoryLimit # Nil
                     THEN Names(successfulJobs(items)) ELSE {})
        s == getNextSchedule([cj EXCEPT !.status = NewStatus(items, {})], clock)
        scheduled == ~cj.spec.suspend /\ s.err = ""
        missed == scheduled /\ s.lastMissed # Nil
        del == fin \cup (IF missed /\ cj.spec.concurrencyPolicy = ReplaceConcurrent
                         THEN act ELSE {})
        drifts1 == IF scheduled THEN Drifts ELSE {0}
        drifts2 == IF missed /\ cj.spec.startingDeadlineSeconds # Nil THEN Drifts ELSE {0}
        tails == IF missed THEN {"ok", "owner", "create"} ELSE {"ok"}
    IN {[NoFault EXCEPT !.fault = f] : f \in {"get", "list"}}
       \cup
       {[NoFault EXCEPT !.fault = "update", !.refErr = re] : re \in SUBSET act}
       \cup
       {[fault |-> "none", refErr |-> re, delErr |-> de, d1 |-> d1, d2 |-> d2,
         ownerErr |-> (t = "owner"), createErr |-> (t = "create")] :
            re \in SUBSET act,
            de \in SUBSET del, d1 \in drifts1, d2 \in drifts2, t \in tails}

\* The outcomes the calls of the one turn the pass is at can have.
TurnInputs(st, items, clock) ==
    CASE st.pc = "get" -> {[NoFault EXCEPT !.fault = f] : f \in {"none", "get"}}
      [] st.pc = "list" ->
            {[NoFault EXCEPT !.fault = "list"]}
            \cup {[NoFault EXCEPT !.refErr = re] : re \in SUBSET Names(activeJobs(items))}
      [] st.pc = "update" -> {[NoFault EXCEPT !.fault = f] : f \in {"none", "update"}}
      [] st.pc \in {"prune", "replace"} ->
            {[NoFault EXCEPT !.delErr = de] : de \in {{}, {Head(st.todo).name}}}
      [] st.pc = "schedule" ->
            LET s == getNextSchedule(st.cj, clock)
                scheduled == ~st.cj.spec.suspend /\ s.err = ""
                missed == scheduled /\ s.lastMissed # Nil
                drifts1 == IF scheduled THEN Drifts ELSE {0}
                drifts2 == IF missed /\ st.cj.spec.startingDeadlineSeconds # Nil
                           THEN Drifts ELSE {0}
            IN {[NoFault EXCEPT !.d1 = d1, !.d2 = d2] : d1 \in drifts1, d2 \in drifts2}
      [] st.pc = "create" ->
            {[NoFault EXCEPT !.ownerErr = (t = "owner"), !.createErr = (t = "create")] :
                t \in {"ok", "owner", "create"}}

\* The jobs whose history-prune delete the pass took as failed: a failed
\* job's delete that returned an error other than not-found (line 158), a
\* successful job's delete that returned any error (line 177).
PrunedWithError(ops) ==
    {ops[i].name : i \in {k \in 1..Len(ops) :
        /\ ops[k].op = "delete"
        /\ \/ ops[k].why = "failed" /\ IgnoreNotFound(ops[k].err) # ""
           \/ ops[k].why = "successful" /\ ops[k].err # ""}}

\* A controller that comes up late finds the clock at LateStart, when a
\* hundred and one runs of an every-other-minute parent created at 0 are due.
LateStart == (2 * MaxMissedStarts + 2) * Minute

\* The last run of that parent a controller coming up can still create: at
\* LastInTime a hundred runs are due.
LastInTime == LateStart - 2 * Minute

\* A controller that has been running for a while finds the clock at
\* HistoryStart, when three runs of an every-other-minute parent created at
\* 0 have come due.
HistoryStart == 6 * Minute

\* Where the clock stops advancing: MaxNow minutes, a minute past
\* HistoryStart, or MaxNow - 2 minutes past LateStart (also from LastInTime).
Horizon ==
    IF now >= LastInTime THEN LateStart + (MaxNow - 2) * Minute
    ELSE IF now >= HistoryStart THEN HistoryStart + Minute
    ELSE MaxNow * Minute

\* What the turn reads.
Env(items) == [found |-> exists, cj |-> cronJob, items |-> items, clock |-> now]

\* The effect of a turn of worker w's pass that leaves the pass as st: on the
\* store, the persisted status, the clock (which has advanced to the turn's
\* last read of it) and the history.  A pass that has returned leaves in
\* last what it read, did and returned, with the store as its last turn
\* found it.
Take(w, st) ==
    LET clock == IF pass[w].pc = "schedule" /\ st.reads # <<>>
                 THEN st.reads[Len(st.reads)] ELSE now
        made == IF st.exit = "created" THEN {st.missedRun} ELSE {}
        done == st.pc = "done"
    IN /\ clock <= Horizon
       /\ now' = clock
       /\ jobs' = st.jobs
       /\ cronJob' = IF st.saved /\ ~pass[w].saved
                     THEN [cronJob EXCEPT !.status = st.status] ELSE cronJob
       /\ pass' = [pass EXCEPT ![w] = IF done THEN Idle ELSE Between(st)]
       /\ last' = IF done
                  THEN [exit |-> st.exit, result |-> st.result, cj |-> st.cj,
                        before |-> jobs, items |-> st.items, refErr |-> st.refErr,
                        status |-> st.status, saved |-> st.saved, ops |-> st.ops,
                        reads |-> st.reads, missedRun |-> st.missedRun,
                        nextRun |-> st.nextRun, prevPruneErr |-> pruneErr]
                  ELSE NoPass
       /\ created' = [once |-> created.once \cup made,
                      again |-> created.again \cup (created.once \cap made)]
       /\ pruneErr' = IF done /\ st.saved THEN PrunedWithError(st.ops) ELSE pruneErr
       /\ UNCHANGED <<exists, cache>>

\* The turn worker w's pass is at, on the store, the parent and the clock
\* as they are and on the listing items, with the outcomes in.
Taken(w, items, in) == Turn([pass[w] EXCEPT !.jobs = jobs], Env(items), in)

\* The delivery layer invokes Reconcile for the parent: r.Get, line 77.
Get(w) ==
    /\ pass[w].pc = "get"
    /\ \E in \in TurnInputs(pass[w], <<>>, now) : Take(w, Taken(w, <<>>, in))

\* r.List, line 87: the children as the manager's cache has them.
List(w) ==
    /\ pass[w].pc = "list"
    /\ \E items \in Listings(cache) :
          \E in \in TurnInputs(pass[w], items, now) : Take(w, Taken(w, items, in))

\* r.Status().Update, line 141
UpdateStatus(w) ==
    /\ pass[w].pc = "update"
    /\ \E in \in TurnInputs(pass[w], <<>>, now) : Take(w, Taken(w, <<>>, in))

\* r.Delete of a finished job, lines 158 and 177
PruneOne(w) ==
    /\ pass[w].pc = "prune"
    /\ \E in \in TurnInputs(pass[w], <<>>, now) : Take(w, Taken(w, <<>>, in))

\* lines 184-278: suspend, the schedule, the deadline and the policy
Schedule(w) ==
    /\ pass[w].pc = "schedule"
    /\ \E in \in TurnInputs(pass[w], <<>>, now) : Take(w, Taken(w, <<>>, in))

\* r.Delete of an active job, line 281
ReplaceOne(w) ==
    /\ pass[w].pc = "replace"
    /\ \E in \in TurnInputs(pass[w], <<>>, now) : Take(w, Taken(w, <<>>, in))

\* constructJobForCronJob and r.Create, lines 315-330
Create(w) ==
    /\ pass[w].pc = "create"
    /\ \E in \in TurnInputs(pass[w], <<>>, now) : Take(w, Taken(w, <<>>, in))

\* The manager's cache catches up with the store.
Sync ==
    /\ cache # jobs
    /\ cache' = jobs
    /\ last' = NoPass
    /\ UNCHANGED <<now, exists, cronJob, jobs, created, pruneErr, pass>>

\* The clock advances.
Tick ==
    /\ now < Horizon
    /\ now' = now + Minute
    /\ last' = NoPass
    /\ UNCHANGED <<exists, cronJob, jobs, cache, created, pruneErr, pass>>

\* A running child finishes: it gets its Complete or Failed condition.
JobFinishes ==
    \E j \in jobs : \E type \in {JobComplete, JobFailed} :
        /\ isJobFinished(j.conditions) = ""
        /\ jobs' = (jobs \ {j}) \cup {[j EXCEPT !.conditions = Append(@, type)]}
        /\ last' = NoPass
        /\ UNCHANGED <<now, exists, cronJob, cache, created, pruneErr, pass>>

\* The user suspends or resumes the parent.
SetSuspend ==
    /\ exists
    /\ cronJob' = [cronJob EXCEPT !.spec.suspend = ~@]
    /\ last' = NoPass
    /\ UNCHANGED <<now, exists, jobs, cache, created, pruneErr, pass>>

\* The user deletes the parent; its children go with it (owner links).
DeleteParent ==
    /\ exists
    /\ exists' = FALSE
    /\ jobs' = {}
    /\ last' = NoPass
    /\ UNCHANGED <<now, cronJob, cache, created, pruneErr, pass>>

\* The turns of worker w's pass.
Pass(w) ==
    \/ Get(w)
    \/ List(w)
    \/ UpdateStatus(w)
    \/ PruneOne(w)
    \/ Schedule(w)
    \/ ReplaceOne(w)
    \/ Create(w)

\* Serialized delivery: at most one pass in flight for the parent, while the
\* cache follows the store, the clock advances, children finish and the user
\* suspends, resumes or deletes the parent.
Next ==
    \/ Pass(1)
    \/ Sync
    \/ Tick
    \/ JobFinishes
    \/ SetSuspend
    \/ DeleteParent

Spec == Init /\ [][Next]_vars

\* Overlapping or duplicate delivery: two passes in flight for the parent,
\* their turns in any order, while the children keep running.  Deadlines
\* play no part in it.
InitOverlap ==
    /\ Init
    /\ cronJob \in Parents
    /\ cronJob.spec.schedule = EveryOther
    /\ cronJob.spec.startingDeadlineSeconds = Nil

\* No child finishes here, so no pass has anything to prune.
NextOverlap ==
    \/ \E w \in Workers :
          \/ Get(w)
          \/ List(w)
          \/ UpdateStatus(w)
          \/ Schedule(w)
          \/ ReplaceOne(w)
          \/ Create(w)
    \/ Sync
    \/ Tick

SpecOverlap == InitOverlap /\ [][NextOverlap]_vars

\* Serialized delivery for the parents that have history limits set, the
\* ones whose passes prune.
InitPruning ==
    /\ now = 0
    /\ exists = TRUE
    /\ cronJob \in PruningParents
    /\ jobs = {}
    /\ cache = {}
    /\ last = NoPass
    /\ created = [once |-> {}, again |-> {}]
    /\ pruneErr = {}
    /\ pass = [w \in Workers |-> Idle]

\* the parent is left as it is: passes, the cache, the clock and children
\* finishing
NextPruning == Pass(1) \/ Sync \/ Tick \/ JobFinishes

SpecPruning == InitPruning /\ [][NextPruning]_vars

\* The same, with the user suspending and resuming the parent.
NextSuspend == Pass(1) \/ Sync \/ Tick \/ JobFinishes \/ SetSuspend

SpecSuspend == InitPruning /\ [][NextSuspend]_vars

\* Serialized delivery to a parent with a history: an every-other-minute
\* parent under the policy Allow, a history limit unset and the other set or
\* both set, whose runs up to HistoryStart have each left a child or none: a
\* child still running, or one that failed or completed, its start time not
\* recorded, or recorded at the time of its run or at HistoryStart.
\* <<successfulJobsHistoryLimit, failedJobsHistoryLimit>>
HistoryLimitPairs == {<<Nil, 1>>, <<2, Nil>>, <<1, 0>>}

HistoryParents ==
    {[p EXCEPT !.spec.successfulJobsHistoryLimit = h[1],
               !.spec.failedJobsHistoryLimit = h[2]] :
        p \in {q \in Parents : /\ q.spec.schedule = EveryOther
                               /\ q.spec.startingDeadlineSeconds = Nil
                               /\ q.spec.concurrencyPolicy = AllowConcurrent},
        h \in HistoryLimitPairs}

\* the runs of the parent that have come due at HistoryStart
HistoryRuns(cj) ==
    {t \in 1..HistoryStart : t % ParseStandard(cj.spec.schedule).period = 0}

\* the child of one run as the store may hold it
HistoryChildren(cj, run) ==
    {constructJobForCronJob(cj, run, FALSE).job}
    \cup {[constructJobForCronJob(cj, run, FALSE).job EXCEPT !.conditions = <<c>>,
                                                            !.startTime = s] :
             c \in {JobFailed, JobComplete}, s \in {Nil, run, HistoryStart}}

\* the children the store may hold: of each run one child or none
HistoryStores(cj) ==
    UNION {{{f[run] : run \in runs} :
               f \in {g \in [runs -> UNION {HistoryChildren(cj, r) : r \in runs}] :
                         \A r \in runs : g[r] \in HistoryChildren(cj, r)}} :
           runs \in SUBSET HistoryRuns(cj)}

InitHistory ==
    /\ now = HistoryStart
    /\ exists = TRUE
    /\ cronJob \in HistoryParents
    /\ jobs \in HistoryStores(cronJob)
    /\ cache = jobs
    /\ last = NoPass
    /\ created = [once |-> {}, again |-> {}]
    /\ pruneErr = {}
    /\ pass = [w \in Workers |-> Idle]

\* Under Allow no pass replaces.
NextHistory ==
    \/ Get(1)
    \/ List(1)
    \/ UpdateStatus(1)
    \/ PruneOne(1)
    \/ Schedule(1)
    \/ Create(1)
    \/ Sync
    \/ Tick

SpecHistory == InitHistory /\ [][NextHistory]_vars

\* Serialized delivery by a controller that comes up late: the clock starts
\* at LateStart with more than a hundred runs of the parent missed, unless
\* a deadline has moved the earliest time; or it starts at LastInTime, with
\* a hundred runs of a parent under Allow missed and the hundred and first
\* coming due.
LateDeadline == (2 * MaxMissedStarts + 1) * Minute

InitLate ==
    /\ \/ /\ now = LateStart
          /\ cronJob \in {[p EXCEPT !.spec.startingDeadlineSeconds = d] :
                             p \in Parents \cup PruningParents, d \in {Nil, LateDeadline}}
       \/ /\ now = LastInTime
          /\ cronJob \in {p \in Parents : /\ p.spec.schedule = EveryOther
                                           /\ p.spec.startingDeadlineSeconds = Nil
                                           /\ p.spec.concurrencyPolicy = AllowConcurrent}
    /\ exists = TRUE
    /\ jobs = {}
    /\ cache = {}
    /\ last = NoPass
    /\ created = [once |-> {}, again |-> {}]
    /\ pruneErr = {}
    /\ pass = [w \in Workers |-> Idle]

NextLate ==
    \/ Pass(1)
    \/ Sync
    \/ Tick
    \/ JobFinishes

SpecLate == InitLate /\ [][NextLate]_vars

(***************************************************************************)
(* The calculator on its own: getNextSchedule applied to a parent and a    *)
(* clock, among them clocks more than MaxMissedStarts occurrences after    *)
(* the earliest time, and clocks a second after and before a full minute.  *)
(***************************************************************************)
CalcMinutes ==
    (0..MaxCalc) \cup {k * MaxMissedStarts + d : k \in 1..3, d \in (0 - 1)..MaxCalc}

CalcTimes == {m * Minute + s : m \in CalcMinutes, s \in {0, 1, Minute - 1}}

CalcBounds == {m * Minute + s : m \in 0..MaxCalc, s \in {0, 1, Minute - 1}}

CalcDeadlines == {Nil, 0, Minute, 3 * Minute, (2 * MaxMissedStarts + 1) * Minute}

CalcParents ==
    {[name |-> "cj",
      namespace |-> "default",
      creationTimestamp |-> c,
      spec |-> [schedule |-> s,
                startingDeadlineSeconds |-> d,
                concurrencyPolicy |-> AllowConcurrent,
                suspend |-> FALSE,
                successfulJobsHistoryLimit |-> Nil,
                failedJobsHistoryLimit |-> Nil],
      status |-> [active |-> <<>>, lastScheduleTime |-> l]] :
        s \in {EveryMinute, EveryOther, EveryThird, EveryFifth, Hourly, Unparseable},
        d \in CalcDeadlines, c \in {0, Minute \div 2},
        l \in {Nil} \cup CalcBounds}

InitCalculator ==
    /\ now \in CalcTimes
    /\ exists = TRUE
    /\ cronJob \in CalcParents
    /\ jobs = {}
    /\ cache = {}
    /\ last = NoPass
    /\ created = [once |-> {}, again |-> {}]
    /\ pruneErr = {}
    /\ pass = [w \in Workers |-> Idle]

\* missedRun, nextRun, err := getNextSchedule(&cronJob, r.Now())
Calculate ==
    /\ last = NoPass
    /\ LET s == getNextSchedule(cronJob, now)
       IN last' = [exit |-> "calculated", reads |-> <<now>>, missedRun |-> s.lastMissed,
                   nextRun |-> s.next, err |-> s.err, starts |-> s.starts]
    /\ UNCHANGED <<now, exists, cronJob, jobs, cache, created, pruneErr, pass>>

NextCalculator == Calculate

SpecCalculator == InitCalculator /\ [][NextCalculator]_vars

(***************************************************************************)
(* A Forbid parent that starts with no child or with one running child:    *)
(* one of its own for run time 0, or one without the annotation.  The      *)
(* cache starts with the store's children and may lag behind them later.   *)
(***************************************************************************)
ChildrenAtStart(cj) ==
    {{}, {constructJobForCronJob(cj, 0, FALSE).job},
     {[constructJobForCronJob(cj, 0, FALSE).job EXCEPT !.name = "manual",
                                                       !.scheduledAt = <<>>]}}

InitForbid ==
    /\ now = 0
    /\ exists = TRUE
    /\ cronJob \in {p \in Parents \cup PruningParents :
                       p.spec.concurrencyPolicy = ForbidConcurrent}
    /\ jobs \in ChildrenAtStart(cronJob)
    /\ cache = jobs
    /\ last = NoPass
    /\ created = [once |-> {}, again |-> {}]
    /\ pruneErr = {}
    /\ pass = [w \in Workers |-> Idle]

NextForbid ==
    \/ Get(1)
    \/ List(1)
    \/ UpdateStatus(1)
    \/ PruneOne(1)
    \/ Schedule(1)
    \/ Create(1)
    \/ Sync
    \/ Tick
    \/ JobFinishes

SpecForbid == InitForbid /\ [][NextForbid]_vars

(***************************************************************************)
(* The job constructor on its own: children built for one parent at        *)
(* chosen nominal run times, at different clocks, kept side by side        *)
(* without the store's check on names.                                     *)
(***************************************************************************)
MaxBuilt == 2

ConstructTimes == {0, 1, 9, 10, 11, Minute, 2 * Minute, 10 * Minute, 20 * Minute}

ParentNames == {"cj", "cj-1"}

InitConstruct ==
    /\ now = 0
    /\ exists = TRUE
    /\ cronJob \in {[p EXCEPT !.name = n] : p \in Parents, n \in ParentNames}
    /\ jobs = {}
    /\ cache = {}
    /\ last = NoPass
    /\ created = [once |-> {}, again |-> {}]
    /\ pruneErr = {}
    /\ pass = [w \in Workers |-> Idle]

\* job, err := constructJobForCronJob(&cronJob, missedRun)
Construct ==
    \E t \in ConstructTimes, ownerErr \in BOOLEAN :
        LET c == constructJobForCronJob(cronJob, t, ownerErr)
        IN /\ Cardinality(jobs) < MaxBuilt
           /\ jobs' = IF c.err = "" THEN jobs \cup {c.job} ELSE jobs
           /\ UNCHANGED <<now, exists, cronJob, cache, last, created, pruneErr, pass>>

NextConstruct == Construct \/ Tick

SpecConstruct == InitConstruct /\ [][NextConstruct]_vars

(***************************************************************************)
(* What the claims speak of.                                               *)
(***************************************************************************)
Ran == last.exit # ""

\* the parent as the pass fetched it, with the status the pass persisted
Parent == last.cj

Running(j) == isJobFinished(j.conditions) = ""

Listed == {last.items[i] : i \in 1..Len(last.items)}

\* the positions in the pass's calls of its deletes / creates of one kind
Calls(op, why) == {i \in 1..Len(last.ops) : last.ops[i].op = op /\ last.ops[i].why = why}

CallNames(op, why) == {last.ops[i].name : i \in Calls(op, why)}

Range(seq) == {seq[i] : i \in 1..Len(seq)}

\* RequeueAfter(nextRun - now) with no error, now being the second clock read
ScheduledOutcome ==
    /\ Len(last.reads) >= 2
    /\ last.result = [requeueAfter |-> last.nextRun - last.reads[2], err |-> ""]

NoRequeue == last.result = [requeueAfter |-> 0, err |-> ""]

(***************************************************************************)
(* C1: over any sequence of reconciles of one parent, with children        *)
(* finishing, history being pruned and the clock advancing in between, the *)
(* job of a nominal run time is created at most once.                      *)
(* The code does not keep this: once the job of a run has finished and     *)
(* been pruned, the next pass finds no child, starts over from the         *)
(* creation time and creates the job of the same run again.                *)
(***************************************************************************)
C1_CreatedAtMostOnce == created.again = {}

(***************************************************************************)
(* C2: with two passes for the parent in flight at once or one after the   *)
(* other, the store never holds two jobs for one nominal run time, and a   *)
(* create for a name the store holds is rejected and adds nothing.         *)
(***************************************************************************)
C2_OneJobPerRun ==
    /\ \A a, b \in jobs : a.scheduledAt = b.scheduledAt => a = b
    /\ \A i \in Calls("create", "run") :
          LET held == {j \in last.before : j.name = last.ops[i].name}
          IN held # {} =>
                /\ last.ops[i].err # ""
                /\ last.result.err = last.ops[i].err
                /\ {j \in jobs : j.name = last.ops[i].name} = held

\* a create was rejected because the other pass had created the job
C2_Witness ==
    /\ \E i \in Calls("create", "run") : last.ops[i].err = "AlreadyExists"
    /\ last.items = <<>>
    /\ jobs # {}

(***************************************************************************)
(* C3, as amended: after a pass that persists status, status.active holds  *)
(* exactly the listed jobs with no finish condition for which a reference  *)
(* could be made, in the listing's order; no finished, deleted or earlier  *)
(* listed job is kept.                                                     *)
(***************************************************************************)
C3_ActiveIsListedRunning ==
    (Ran /\ last.saved) =>
        /\ cronJob.status = last.status
        /\ LET made == SelectSeq(last.items,
                                 LAMBDA j : Running(j) /\ j.name \notin last.refErr)
           IN cronJob.status.active = [i \in 1..Len(made) |-> made[i].name]
        /\ Range(cronJob.status.active) \subseteq {j.name : j \in {k \in Listed : Running(k)}}

\* a pass persisted a status naming a running job while it listed a finished
\* one that the status before it named
C3_Witness ==
    /\ Ran /\ last.saved /\ last.refErr = {}
    /\ Len(cronJob.status.active) = 1
    /\ \E j \in Listed : ~Running(j)
    /\ Cardinality(Listed) = 2

\* C3 as stated: every listed job with no finish condition is referenced.
C3_Original ==
    (Ran /\ last.saved) =>
        Range(cronJob.status.active) = {j.name : j \in {k \in Listed : Running(k)}}

(***************************************************************************)
(* C4: the lastScheduleTime persisted by successive passes never moves to  *)
(* an earlier time and never goes from set to unset.                       *)
(* The code does not keep this: it recomputes the time from the children   *)
(* it lists, so it falls back once the child of the latest run is gone     *)
(* (pruned, or deleted under Replace before a create that failed).         *)
(***************************************************************************)
C4_LastScheduleTimeMonotonic ==
    [][cronJob'.status.lastScheduleTime >= cronJob.status.lastScheduleTime]_vars

ListedRunning == {j \in Listed : Running(j)}

\* the run is past its deadline at the third clock read
TooLate ==
    /\ Parent.spec.startingDeadlineSeconds # Nil
    /\ Len(last.reads) = 3
    /\ last.missedRun + Parent.spec.startingDeadlineSeconds < last.reads[3]

\* the pass got as far as a computed schedule: its status update succeeded,
\* the parent it fetched is not suspended and the schedule can be computed
\* from the status the pass persisted and its first clock read
ReachedSchedule ==
    /\ Ran /\ last.saved
    /\ ~Parent.spec.suspend
    /\ last.reads # <<>>
    /\ getNextSchedule(Parent, last.reads[1]).err = ""

\* the pass neither constructed nor created a job, nor deleted a job it
\* listed as running
NothingStarted ==
    /\ last.exit \notin {"construct", "create", "created"}
    /\ Calls("create", "run") = {}
    /\ Calls("delete", "active") = {}
    /\ \A i \in 1..Len(last.ops) :
          last.ops[i].op = "delete" => last.ops[i].name \notin {j.name : j \in ListedRunning}

(***************************************************************************)
(* C5, as amended: under Forbid, a pass that lists at least one running    *)
(* job constructs and creates no job and deletes no running job; and when  *)
(* its status update succeeds, the parent is not suspended and the         *)
(* schedule can be computed, it returns RequeueAfter(nextRun - now) with   *)
(* no error.  (Otherwise it returns what the step it leaves at returns:    *)
(* the error of the fetch, the listing or the status update, or no requeue *)
(* when suspended or when the schedule cannot be computed.)                *)
(***************************************************************************)
C5_ForbidSkipsRun ==
    (Ran /\ Parent.spec.concurrencyPolicy = ForbidConcurrent /\ ListedRunning # {}) =>
        /\ NothingStarted
        /\ ReachedSchedule =>
              /\ ScheduledOutcome
              /\ last.exit \in {"nomissed", "toolate", "forbid"}
              /\ (last.missedRun # Nil /\ ~TooLate) => last.exit = "forbid"

\* a Forbid pass stopped at the policy check with a run missed
C5_Witness ==
    /\ Ran /\ Parent.spec.concurrencyPolicy = ForbidConcurrent /\ ListedRunning # {}
    /\ ReachedSchedule
    /\ last.exit = "forbid"
    /\ last.missedRun = 4 * Minute
    /\ last.result.requeueAfter > 0

\* C5 as stated: every such pass returns RequeueAfter(nextRun - now).
C5_Original ==
    (Ran /\ Parent.spec.concurrencyPolicy = ForbidConcurrent /\ ListedRunning # {}) =>
        /\ NothingStarted
        /\ ScheduledOutcome

(***************************************************************************)
(* C6: under Replace, in a pass that creates a job, a delete was issued    *)
(* for every job listed as running before the create, and none of them     *)
(* failed; after the pass the only running job among those the pass knows  *)
(* (the listed ones and the new one) is the new one.                       *)
(***************************************************************************)
C6_ReplaceDeletesBeforeCreate ==
    (Ran /\ Parent.spec.concurrencyPolicy = ReplaceConcurrent /\ last.exit = "created") =>
        LET c == CHOOSE i \in Calls("create", "run") : TRUE
            known == {j.name : j \in Listed} \cup {last.ops[c].name}
        IN /\ Cardinality(Calls("create", "run")) = 1
           /\ \A j \in ListedRunning :
                 \E i \in Calls("delete", "active") :
                    /\ i < c
                    /\ last.ops[i].name = j.name
                    /\ last.ops[i].err \in {"", "NotFound"}
           /\ {j.name : j \in {k \in jobs : Running(k) /\ k.name \in known}}
                 = {last.ops[c].name}

\* a Replace pass deleted the running job of the run before and created the new one
C6_Witness ==
    /\ Ran /\ Parent.spec.concurrencyPolicy = ReplaceConcurrent /\ last.exit = "created"
    /\ ListedRunning # {}
    /\ Cardinality(jobs) = 1

(***************************************************************************)
(* C7: under Replace, a delete of a running job that fails with an error   *)
(* other than not-found is the last call of the pass, which returns that   *)
(* error with no RequeueAfter and constructs and creates nothing; a delete *)
(* that answers not-found does not end the pass.                           *)
(***************************************************************************)
C7_ReplaceDeleteErrorIsFatal ==
    (Ran /\ Parent.spec.concurrencyPolicy = ReplaceConcurrent) =>
        /\ \A i \in Calls("delete", "active") :
              last.ops[i].err = "Error" =>
                 /\ i = Len(last.ops)
                 /\ last.exit = "replace"
                 /\ last.result = [requeueAfter |-> 0, err |-> "Error"]
                 /\ Calls("create", "run") = {}
        /\ last.exit = "replace" => last.ops[Len(last.ops)].err = "Error"
        /\ (Calls("delete", "active") # {}
            /\ \A i \in Calls("delete", "active") : last.ops[i].err \in {"", "NotFound"})
              => last.exit \in {"construct", "create", "created"}

\* a Replace pass found the running job it listed already gone and went on
\* to create the new job
C7_Witness ==
    /\ Ran /\ Parent.spec.concurrencyPolicy = ReplaceConcurrent
    /\ \E i \in Calls("delete", "active") : last.ops[i].err = "NotFound"
    /\ last.exit = "created"

\* the listed jobs of one finished kind, and the job of a name
ListedAs(kind) == {j \in Listed : isJobFinished(j.conditions) = kind}

ListedNamed(n) == CHOOSE j \in Listed : j.name = n

\* a started no later than b, a job without a start time counting as oldest
NotNewer(a, b) == a.startTime = Nil \/ (b.startTime # Nil /\ a.startTime <= b.startTime)

\* the pruning calls of a pass for one partition: none when the limit is
\* unset or not exceeded, else one per job beyond the limit, oldest first,
\* each for a different job of the partition, none newer than a kept job
PruneExact(why, kind, limit) ==
    LET part == ListedAs(kind)
        N == Cardinality(part)
        calls == Calls("delete", why)
        D == CallNames("delete", why)
        want == IF limit = Nil \/ N <= limit THEN 0 ELSE N - limit
    IN /\ Cardinality(calls) = want
       /\ Cardinality(D) = want
       /\ D \subseteq {j.name : j \in part}
       /\ \A d, r \in part : (d.name \in D /\ r.name \notin D) => NotNewer(d, r)
       /\ \A a, b \in calls :
             a < b => NotNewer(ListedNamed(last.ops[a].name), ListedNamed(last.ops[b].name))

(***************************************************************************)
(* C8: for each finished partition of N jobs with limit L, a pass that     *)
(* gets to pruning issues no delete when L is unset or N <= L, and when    *)
(* N > L a delete for exactly N - L different jobs of the partition, the   *)
(* oldest by start time (a job without start time counting as oldest),     *)
(* never one of the L most recently started, and never a running job.      *)
(***************************************************************************)
C8_PruneOldestBeyondLimit ==
    (Ran /\ last.saved) =>
        /\ PruneExact("failed", JobFailed, Parent.spec.failedJobsHistoryLimit)
        /\ PruneExact("successful", JobComplete, Parent.spec.successfulJobsHistoryLimit)
        /\ (CallNames("delete", "failed") \cup CallNames("delete", "successful"))
              \cap {j.name : j \in ListedRunning} = {}

\* three failed jobs against a limit of one, no limit set for the successful
\* ones: the job without a start time was deleted first, then the one that
\* started earlier, and the one that started last was kept
C8_Witness ==
    /\ Ran /\ last.saved
    /\ Parent.spec.failedJobsHistoryLimit = 1
    /\ Parent.spec.successfulJobsHistoryLimit = Nil
    /\ Cardinality(ListedAs(JobFailed)) = 3
    /\ Cardinality(Calls("delete", "failed")) = 2
    /\ \E a, b, c \in ListedAs(JobFailed) :
          /\ a.startTime = Nil /\ b.startTime # Nil /\ b.startTime < c.startTime
          /\ \E i, k \in Calls("delete", "failed") :
                i < k /\ last.ops[i].name = a.name /\ last.ops[k].name = b.name
          /\ c \in jobs /\ a \notin jobs /\ b \notin jobs

\* no limit set for the failed jobs: three of them listed, none deleted
C8_UnsetLimit ==
    /\ Ran /\ last.saved
    /\ Parent.spec.failedJobsHistoryLimit = Nil
    /\ Cardinality(ListedAs(JobFailed)) = 3
    /\ Calls("delete", "failed") = {}
    /\ ListedAs(JobFailed) \subseteq jobs

\* no limit set for the successful jobs: two of them listed, none deleted,
\* next to a running job and a failed job within its limit
C8_UnsetLimitSuccessful ==
    /\ Ran /\ last.saved
    /\ Parent.spec.successfulJobsHistoryLimit = Nil
    /\ Cardinality(ListedAs(JobComplete)) = 2
    /\ Cardinality(ListedAs(JobFailed)) = 1
    /\ Calls("delete", "successful") = {}
    /\ Calls("delete", "failed") = {}
    /\ ListedAs(JobComplete) \subseteq jobs

\* two successful jobs against a limit of two next to a running job: no
\* delete, and the running job stays
C8_WithinLimit ==
    /\ Ran /\ last.saved
    /\ Parent.spec.successfulJobsHistoryLimit = 2
    /\ Cardinality(ListedAs(JobComplete)) = 2
    /\ ListedRunning # {}
    /\ Calls("delete", "successful") = {}
    /\ Calls("delete", "failed") = {}
    /\ Listed \subseteq jobs

PruneCalls == Calls("delete", "failed") \cup Calls("delete", "successful")

\* the calls of a pass that are not pruning calls, in order
OtherOps(ops) == SelectSeq(ops, LAMBDA o : ~(o.op = "delete" /\ o.why \in {"failed", "successful"}))

\* what of a pass pruning must not change: the exit taken, the result, the
\* status, the clock reads, the calls that are not pruning calls, and the
\* number of calls
BesidesPruning(r) ==
    [exit |-> r.exit, result |-> r.result, status |-> r.status, reads |-> r.reads,
     calls |-> Len(r.ops), others |-> OtherOps(r.ops)]

\* a pass begun in the present state, over a listing of the cache or of the
\* store, has the same outcome whether or not its pruning deletes fail: the
\* pass in which no delete of a finished job fails is compared with every
\* pass that differs from it in such deletes failing
PruneErrorsChangeNothing ==
    \A items \in IF pass[1] = Idle THEN Listings(cache) \cup Listings(jobs) ELSE {} :
       LET finished == Names(failedJobs(items)) \cup Names(successfulJobs(items))
           inputs == Inputs(cronJob, items, now)
           failing == UNION {i.delErr \cap finished : i \in inputs}
       IN \A in \in {i \in inputs : i.delErr \cap finished = {}} :
             LET clean == BesidesPruning(Reconcile(exists, cronJob, jobs, items, now, in))
             IN \A de \in SUBSET failing :
                   LET dirty == [in EXCEPT !.delErr = @ \cup de]
                   IN (de # {} /\ dirty \in inputs) =>
                         BesidesPruning(Reconcile(exists, cronJob, jobs, items, now, dirty))
                            = clean

\* the job named n is listed as finished and lies beyond its partition's limit
BeyondLimit(n, kind, limit) ==
    /\ limit # Nil
    /\ \E j \in ListedAs(kind) :
          /\ j.name = n
          /\ Cardinality({r \in ListedAs(kind) : ~NotNewer(r, j)}) >= limit

(***************************************************************************)
(* C9: a failed pruning delete never makes the pass return an error (an    *)
(* error the pass returns is the one of a later Replace delete or of the   *)
(* create) and does not stop the pass: the remaining pruning targets still *)
(* get their delete and the steps after pruning run as they would have; a  *)
(* job that was in the store when its pruning delete failed stays there,   *)
(* and a job whose pruning delete failed gets a delete again in the next   *)
(* pass that reaches pruning, if it is still beyond the limit.             *)
(***************************************************************************)
C9_PruneErrorsAreBestEffort ==
    /\ PruneErrorsChangeNothing
    /\ (Ran /\ last.saved) =>
          /\ \A i \in PruneCalls :
                last.ops[i].err # "" =>
                   /\ last.result.err = "" \/ last.exit \in {"replace", "create"}
                   /\ last.ops[i].had => \E j \in jobs : j.name = last.ops[i].name
          /\ Cardinality(Calls("delete", "failed")) =
                Len(PruneTargets(failedJobs(last.items), cronJob.spec.failedJobsHistoryLimit))
          /\ Cardinality(Calls("delete", "successful")) =
                Len(PruneTargets(successfulJobs(last.items),
                                 cronJob.spec.successfulJobsHistoryLimit))
          /\ \A n \in last.prevPruneErr :
                /\ BeyondLimit(n, JobFailed, cronJob.spec.failedJobsHistoryLimit)
                      => n \in CallNames("delete", "failed")
                /\ BeyondLimit(n, JobComplete, cronJob.spec.successfulJobsHistoryLimit)
                      => n \in CallNames("delete", "successful")

\* the delete of a finished job failed in the pass before and fails again
\* in this one, which still goes on to create the job of the missed run
C9_Witness ==
    /\ Ran /\ last.saved
    /\ \E i \in PruneCalls :
          /\ last.ops[i].err = "Error"
          /\ last.ops[i].name \in last.prevPruneErr
    /\ last.exit = "created"
    /\ last.result.err = ""

\* what a suspended pass does apart from the status it persists
SuspendedPass ==
    /\ last.exit = "suspend"
    /\ NoRequeue
    /\ Calls("create", "run") = {}
    /\ Calls("delete", "active") = {}
    /\ last.reads = <<>>
    /\ PruneExact("failed", JobFailed, Parent.spec.failedJobsHistoryLimit)
    /\ PruneExact("successful", JobComplete, Parent.spec.successfulJobsHistoryLimit)

(***************************************************************************)
(* C10, as amended: while the parent is suspended, a pass whose status     *)
(* update succeeds creates no job, deletes no running job and returns with *)
(* no requeue and no error, whatever the schedule and the missed runs;     *)
(* pruning still runs before it returns, and the status persisted in the   *)
(* pass lists the running jobs for which a reference could be made.        *)
(***************************************************************************)
C10_SuspendedCreatesNothing ==
    (Ran /\ last.saved /\ Parent.spec.suspend) =>
        /\ SuspendedPass
        /\ cronJob.status = last.status
        /\ Range(last.status.active) = {j.name : j \in ListedRunning} \ last.refErr

\* a suspended Replace pass with a run missed and the job of the run before
\* still running: the job is left alone and listed in the status
C10_Witness ==
    /\ Ran /\ last.saved /\ Parent.spec.suspend
    /\ Parent.spec.concurrencyPolicy = ReplaceConcurrent
    /\ Range(last.status.active) # {}
    /\ now = MaxNow * Minute
    /\ last.status.lastScheduleTime = 2 * Minute
    /\ jobs = last.before

\* C10 as stated: the status persisted lists the running jobs.
C10_Original ==
    (Ran /\ last.saved /\ Parent.spec.suspend) =>
        /\ SuspendedPass
        /\ cronJob.status = last.status
        /\ Range(last.status.active) = {j.name : j \in ListedRunning}

\* the calculator has returned
Calculated == last.exit = "calculated"

\* The schedule's occurrences and the calculator's window, stated apart from
\* the walk: an occurrence of a schedule every p seconds is a multiple of p; the
\* bound time is the last schedule time if set, else the creation time; the
\* earliest time is the bound, or now - deadline when that is later.
Period == ParseStandard(cronJob.spec.schedule).period

Occurs(t) == t % Period = 0

BoundTime ==
    IF cronJob.status.lastScheduleTime # Nil THEN cronJob.status.lastScheduleTime
    ELSE cronJob.creationTimestamp

EarliestAt(clock) ==
    IF cronJob.spec.startingDeadlineSeconds # Nil
    THEN Max(BoundTime, clock - cronJob.spec.startingDeadlineSeconds)
    ELSE BoundTime

EarliestTime == EarliestAt(now)

\* the occurrences in (earliest, clock]: the k-th occurrence is k * Period,
\* for the k from the first one after earliest to the last one up to clock
MissedAt(clock) ==
    {k * Period : k \in ((EarliestAt(clock) \div Period) + 1)..(clock \div Period)}

MissedOccurrences == MissedAt(now)

(***************************************************************************)
(* C11: whenever the calculator returns without error, its nextRun is the  *)
(* first occurrence of the schedule strictly after now, whether a missed   *)
(* run was found or not, also when the earliest time lies after now.       *)
(***************************************************************************)
C11_NextRunIsFirstAfterNow ==
    (Calculated /\ last.err = "") =>
        /\ last.nextRun > now
        /\ Occurs(last.nextRun)
        /\ last.nextRun - Period <= now

\* the earliest time lies after now, with occurrences between now and it:
\* nextRun is still the first one after now
C11_Witness ==
    /\ Calculated /\ last.err = ""
    /\ EarliestTime > now
    /\ last.missedRun = Nil
    /\ \E t \in (now + 1)..EarliestTime : Occurs(t)
    /\ Period = 2 * Minute

(***************************************************************************)
(* C12: when the calculator returns without error, its missedRun is the    *)
(* latest occurrence t with earliest < t <= now, and none when there is no *)
(* such occurrence (so also when earliest > now); a missedRun is never     *)
(* earlier than the bound time and never later than now.                   *)
(***************************************************************************)
C12_MissedRunIsLatestInWindow ==
    (Calculated /\ last.err = "") =>
        /\ IF MissedOccurrences = {}
           THEN last.missedRun = Nil
           ELSE /\ last.missedRun \in MissedOccurrences
                /\ \A t \in MissedOccurrences : t <= last.missedRun
        /\ last.missedRun # Nil => (BoundTime <= last.missedRun /\ last.missedRun <= now)

\* several occurrences lie in a window that the deadline has raised above
\* the bound time: the latest is the missed run
C12_Witness ==
    /\ Calculated /\ last.err = ""
    /\ Cardinality(MissedOccurrences) > 1
    /\ EarliestTime > BoundTime
    /\ last.missedRun \in MissedOccurrences
    /\ last.missedRun < now

(***************************************************************************)
(* C13: for a schedule that parses, the calculator fails with too many     *)
(* missed starts exactly when more than 100 occurrences lie in (earliest,  *)
(* now]; it then returns no missedRun and no nextRun; and its walk never   *)
(* visits more than 101 occurrences.                                       *)
(***************************************************************************)
C13_TooManyMissedAbove100 ==
    (Calculated /\ ~ParseStandard(cronJob.spec.schedule).err) =>
        /\ (last.err # "") <=> (Cardinality(MissedOccurrences) > MaxMissedStarts)
        /\ last.err # "" => (last.missedRun = Nil /\ last.nextRun = Nil)
        /\ last.starts <= MaxMissedStarts + 1
        /\ last.err = "" => last.starts = Cardinality(MissedOccurrences)

\* exactly 101 occurrences in the window: the error, with 101 visited
C13_Witness ==
    /\ Calculated /\ ~ParseStandard(cronJob.spec.schedule).err
    /\ Cardinality(MissedOccurrences) = MaxMissedStarts + 1
    /\ last.err # ""
    /\ last.starts = MaxMissedStarts + 1

\* exactly 100 occurrences in the window: a result
C13_AtTheLimit ==
    /\ Calculated /\ ~ParseStandard(cronJob.spec.schedule).err
    /\ Cardinality(MissedOccurrences) = MaxMissedStarts
    /\ last.err = ""
    /\ last.missedRun # Nil

\* the pass got to the schedule and the calculator gave an error
ScheduleFailed ==
    /\ Ran /\ last.saved
    /\ ~Parent.spec.suspend
    /\ last.reads # <<>>
    /\ getNextSchedule(Parent, last.reads[1]).err # ""

\* every pass from the present store and spec, at the present clock or a
\* later one, that gets to the schedule ends paused: no requeue, no error,
\* no create and no delete of an active job
StaysPaused ==
    \A clock \in now..Horizon :
       \A items \in Listings(jobs) :
          \A in \in Inputs(cronJob, items, clock) :
             in.fault = "none" =>
                LET r == Reconcile(exists, cronJob, jobs, items, clock, in)
                IN /\ r.exit = "schedule"
                   /\ r.result = [requeueAfter |-> 0, err |-> ""]
                   /\ \A i \in 1..Len(r.ops) : r.ops[i].why \notin {"run", "active"}

\* what a pass does when the calculator gives an error
PausedPass ==
    /\ last.exit = "schedule"
    /\ NoRequeue
    /\ Calls("create", "run") = {}
    /\ Calls("delete", "active") = {}

(***************************************************************************)
(* C14: when the schedule cannot be parsed or the calculator reports too   *)
(* many missed starts, the pass returns no requeue and no error, creates   *)
(* no job and deletes no active job; and as long as the spec and the       *)
(* children do not change, every later pass that gets to the schedule ends *)
(* the same way: the parent stays paused.                                  *)
(***************************************************************************)
C14_PausedOnScheduleError ==
    ScheduleFailed =>
        /\ PausedPass
        /\ StaysPaused

(***************************************************************************)
(* C19: a pass creates at most one job; when several runs were missed      *)
(* (up to 100), the job it creates is the one of the latest missed run,    *)
(* and no earlier missed run is created by that pass or by a later one:    *)
(* the run a pass creates is never earlier than a run created before.      *)
(***************************************************************************)
C19_OnlyLatestMissedRunCreated ==
    Ran =>
        /\ Cardinality(Calls("create", "run")) <= 1
        /\ last.exit = "created" =>
              LET missed == MissedAt(last.reads[1])
              IN /\ missed # {}
                 /\ last.missedRun \in missed
                 /\ \A t \in missed : t <= last.missedRun
                 /\ \E j \in jobs :
                       /\ jobs \ last.before = {j}
                       /\ j.name = JobName(Parent, last.missedRun)
                       /\ getScheduledTimeForJob(j).time = last.missedRun
                 /\ \A t \in created.once : t <= last.missedRun

\* a hundred runs were missed and the pass created the job of the latest
C19_Witness ==
    /\ Ran /\ last.exit = "created"
    /\ Cardinality(MissedAt(last.reads[1])) = MaxMissedStarts
    /\ created.once = {last.missedRun}
    /\ Cardinality(jobs) = 1

(***************************************************************************)
(* C15: with a starting deadline D set, a pass whose missed run T has its  *)
(* deadline elapsed at the clock read for the deadline check (T + D before *)
(* that read) creates nothing, deletes no active job and returns           *)
(* RequeueAfter(nextRun - now) with no error; so no pass creates the job   *)
(* of a run whose deadline had elapsed at its check.                       *)
(***************************************************************************)
C15_NoStartPastDeadline ==
    /\ (Ran /\ last.missedRun # Nil /\ TooLate) =>
          /\ last.exit = "toolate"
          /\ ScheduledOutcome
          /\ Calls("create", "run") = {}
          /\ Calls("delete", "active") = {}
          /\ jobs = last.before
    /\ (Ran /\ Calls("create", "run") # {} /\ Parent.spec.startingDeadlineSeconds # Nil) =>
          /\ Len(last.reads) = 3
          /\ last.missedRun + Parent.spec.startingDeadlineSeconds >= last.reads[3]

\* the clock moved past the deadline of the missed run between the schedule
\* computation and the deadline check
C15_Witness ==
    /\ Ran /\ last.missedRun # Nil /\ TooLate
    /\ last.exit = "toolate"
    /\ last.reads[3] > last.reads[1]
    /\ last.missedRun = last.reads[1]

(***************************************************************************)
(* C16: a create call that fails, also with the already-exists rejection   *)
(* of a name the store holds, ends the pass with that error and no         *)
(* RequeueAfter, and leaves the children in the store as they were before  *)
(* the create.                                                             *)
(***************************************************************************)
C16_CreateFailureIsError ==
    Ran =>
        \A i \in Calls("create", "run") :
           last.ops[i].err # "" =>
              /\ i = Len(last.ops)
              /\ last.exit = "create"
              /\ last.result = [requeueAfter |-> 0, err |-> last.ops[i].err]
              /\ jobs = last.before
              /\ last.ops[i].err = "AlreadyExists"
                    => \E j \in last.before : j.name = last.ops[i].name

\* a second attempt at a run whose job another pass had created meanwhile
C16_Witness ==
    /\ Ran /\ last.exit = "create"
    /\ \E i \in Calls("create", "run") :
          /\ last.ops[i].err = "AlreadyExists"
          /\ \E j \in jobs : j.name = last.ops[i].name
    /\ last.result.err = "AlreadyExists"

\* the clock the pass began at
PassClock == IF last.reads = <<>> THEN now ELSE last.reads[1]

\* the pass ran between two runs: the job of run t, created by an earlier
\* pass, was in the store up to the pass's last call, the pass began at a
\* clock from t up to the next occurrence, and the spec it fetched is as it
\* was (a schedule that parses, not suspended)
BetweenRunsOf(t) ==
    /\ Ran
    /\ ~Parent.spec.suspend
    /\ ~ParseStandard(Parent.spec.schedule).err
    /\ t \in created.once
    /\ \E j \in last.before : getScheduledTimeForJob(j).time = t
    /\ t <= PassClock
    /\ PassClock < t + ParseStandard(Parent.spec.schedule).period

\* the pass's listing held the job of run t
ListedRun(t) == \E j \in Listed : getScheduledTimeForJob(j).time = t

(***************************************************************************)
(* C17, as amended: once a pass has created the job of run T, a further    *)
(* pass at a clock in [T, next occurrence after T), with that job still in *)
(* the store in whatever state, the spec unchanged and the job in the      *)
(* pass's listing, creates no job and deletes no active job under any      *)
(* policy; and when its status update succeeds it returns                  *)
(* RequeueAfter(nextRun - now) with no error.  (A pass whose fetch,        *)
(* listing or status update fails returns that error; a pass whose listing *)
(* comes from a cache that does not have the job yet attempts the create   *)
(* again and returns the store's already-exists error.)                    *)
(***************************************************************************)
C17_NoOpBetweenRuns ==
    \A t \in created.once :
        (BetweenRunsOf(t) /\ ListedRun(t)) =>
            /\ Calls("create", "run") = {}
            /\ Calls("delete", "active") = {}
            /\ last.exit \notin {"construct", "create", "created", "replace"}
            /\ last.saved => (last.exit = "nomissed" /\ ScheduledOutcome)

\* a Replace pass a minute after the run, its job still running
C17_Witness ==
    /\ \E t \in created.once : BetweenRunsOf(t) /\ ListedRun(t)
    /\ last.saved /\ last.exit = "nomissed"
    /\ Parent.spec.concurrencyPolicy = ReplaceConcurrent
    /\ ListedRunning # {}
    /\ PassClock = 3 * Minute
    /\ jobs = last.before

\* C17 as stated: every such pass makes no create call and returns
\* RequeueAfter(nextRun - now).
C17_Original ==
    \A t \in created.once :
        BetweenRunsOf(t) =>
            /\ Calls("create", "run") = {}
            /\ Calls("delete", "active") = {}
            /\ ScheduledOutcome

\* the nominal run time a child carries in its annotation
RunTime(j) == getScheduledTimeForJob(j).time

(***************************************************************************)
(* C18: the child's name is a function of the parent's name and the        *)
(* nominal run time in whole seconds, and an injective one: children built *)
(* for the same parent and run time, at whatever clock, have the same name *)
(* and the parent's namespace, and children built for two distinct run     *)
(* times of the same parent have different names.                          *)
(***************************************************************************)
C18_JobNameInjective ==
    \A j1, j2 \in jobs :
        /\ j1.namespace = cronJob.namespace
        /\ (RunTime(j1) = RunTime(j2)) <=> (j1.name = j2.name)

\* children built for run times 1 and 11 at a later clock
C18_Witness ==
    /\ last = NoPass /\ created.once = {} /\ now > 0
    /\ {RunTime(j) : j \in jobs} = {1, 11}
    /\ {j.name : j \in jobs} = {Sprintf(cronJob.name, 1), Sprintf(cronJob.name, 11)}

(***************************************************************************)
(* C20: with the policy Forbid throughout, passes of the one parent taken  *)
(* one at a time and each listing the store's current children, a store   *)
(* that starts with at most one running child never holds more than one   *)
(* running child, whatever the order of passes, clock advances and job    *)
(* completions.  Stated of the steps, the cache being free to lag: the     *)
(* only step that takes the store from at most one running child to more   *)
(* than one is the last call of a pass whose listing lacked a child the    *)
(* store held.  (A listing that was the store's children lacks none: up to *)
(* its last call only the pass itself removes children.)  The stores at    *)
(* the start hold at most one running child.                               *)
(***************************************************************************)
C20_ForbidAtMostOneRunning ==
    [][(/\ cronJob.spec.concurrencyPolicy = ForbidConcurrent
        /\ Cardinality({j \in jobs : Running(j)}) <= 1
        /\ Cardinality({j \in jobs' : Running(j)}) > 1)
          => \E j \in last'.before :
                j.name \notin {last'.items[i].name : i \in 1..Len(last'.items)}]_vars

\* a pass that listed every child of the store and that Forbid stopped: a
\* run is due, one child is still running and an earlier one has finished
C20_Witness ==
    /\ cronJob.spec.concurrencyPolicy = ForbidConcurrent
    /\ Ran /\ last.exit = "forbid" /\ last.missedRun # Nil
    /\ {j.name : j \in last.before} = {j.name : j \in Listed}
    /\ Cardinality({j \in jobs : Running(j)}) = 1
    /\ \E j \in jobs : ~Running(j)
    /\ created.once # {}

\* the store once every running child has finished with the given condition
AllFinished(store, type) ==
    {IF Running(j) THEN [j EXCEPT !.conditions = Append(@, type)] ELSE j : j \in store}

\* the passes that may follow at clock once the running children have
\* finished
PassesOnceFinished(clock) ==
    UNION {UNION {{Reconcile(exists, cronJob, AllFinished(jobs, type), items, clock, in) :
                      in \in Inputs(cronJob, items, clock)} :
                  items \in Listings(AllFinished(jobs, type))} :
           type \in {JobComplete, JobFailed}}

\* the runs those passes create
CreatedOnceFinished(clock) ==
    {r.missedRun : r \in {x \in PassesOnceFinished(clock) : x.exit = "created"}}

(***************************************************************************)
(* C21: under Forbid, a run that a pass skipped because an earlier job was *)
(* still running is skipped for good: once the running job has finished,   *)
(* no pass at that clock or a later one creates the job of the skipped run.*)
(***************************************************************************)
C21_SkippedForGood ==
    (Ran /\ last.exit = "forbid") =>
        \A clock \in now..Horizon : last.missedRun \notin CreatedOnceFinished(clock)

\* the children the pass listed as running and removed from the store for
\* Replace
ReplacedAway ==
    {j \in ListedRunning : \E i \in Calls("delete", "active") :
                               /\ last.ops[i].name = j.name
                               /\ last.ops[i].err = "" /\ last.ops[i].had}

(***************************************************************************)
(* C22: under Replace, active jobs are deleted only in a pass that ends    *)
(* with the replacement created: no pass ends with running children it     *)
(* found deleted and no job of the missed run in the store, whether a      *)
(* later Replace delete, the construction or the create failed.            *)
(***************************************************************************)
C22_ReplaceIsAllOrNothing ==
    (Ran /\ Parent.spec.concurrencyPolicy = ReplaceConcurrent /\ ReplacedAway # {}) =>
        /\ last.exit = "created"
        /\ \E j \in jobs : j.name = JobName(Parent, last.missedRun)

\* the pass returned scheduledResult: one of the returns of lines 256, 268,
\* 274, 319 and 330
ReturnedScheduled ==
    Ran /\ last.exit \in {"nomissed", "toolate", "forbid", "construct", "created"}

(***************************************************************************)
(* C23: every RequeueAfter duration a pass returns is strictly positive,   *)
(* even though the clock is read once for nextRun and again for            *)
(* nextRun - now and may have advanced in between: a returned scheduled    *)
(* outcome always arms the wake-up timer.                                  *)
(***************************************************************************)
C23_RequeueAfterPositive ==
    ReturnedScheduled => last.result.requeueAfter > 0

\* the Calculator returned a missed run for a parent with a starting deadline
MissedWithDeadline ==
    /\ Calculated /\ last.err = ""
    /\ cronJob.spec.startingDeadlineSeconds # Nil
    /\ last.missedRun # Nil

(***************************************************************************)
(* C24: with a deadline D configured, every missedRun the Calculator       *)
(* returns for the clock value now has missedRun + D >= now, so the        *)
(* too-late check does not fire at the clock value the Calculator used: it *)
(* fires only at a later one.                                              *)
(***************************************************************************)
C24_MissedRunWithinDeadline ==
    MissedWithDeadline =>
        /\ last.missedRun + cronJob.spec.startingDeadlineSeconds >= now
        /\ ~TooLateToStart(cronJob, last.missedRun, now)
        /\ \A clock \in now..(now + 2 * MaxDrift * Minute) :
              TooLateToStart(cronJob, last.missedRun, clock) => clock > now

\* a missed run one second inside its deadline, too late two seconds on
C24_Witness ==
    /\ MissedWithDeadline
    /\ cronJob.status.lastScheduleTime # Nil
    /\ last.missedRun + cronJob.spec.startingDeadlineSeconds = now + 1
    /\ ~TooLateToStart(cronJob, last.missedRun, now + 1)
    /\ TooLateToStart(cronJob, last.missedRun, now + 2)

====
